---- MODULE Spec2Model ----
(***************************************************************************)
(* State-machine model of the Ralph autonomous pipeline                    *)
(* (scripts/ralph-bmad.sh with scripts/ralph-extract-task.js and           *)
(* scripts/ralph-sprint-status.js).                                        *)
(*                                                                         *)
(* The sprint ledger (sprint-status.yaml), the story files (their Status   *)
(* line and their Ralph Tasks JSON) and the shell variables of the         *)
(* pipeline are the state.  The worker, the reviewer, the story generator  *)
(* and the build/test commands are external: each of their results is      *)
(* drawn with \E at the step that consumes it.                             *)
(***************************************************************************)
EXTENDS Integers, Sequences, FiniteSets, TLC

(***************************************************************************)
(* Bounds of the model.                                                    *)
(***************************************************************************)
NumTasks == 2
MaxRetries == 2
MaxCRIterations == 2

MAX_TOTAL_FAILURES == 5

\* The clock of a run stops at MaxTime ticks; the budget of a story, in ticks.
MaxTime == 3

\* The most checkCommands a task has.
MaxCmds == 2

\* The most tasks listed in a manifest whose text is looked at.
MaxListed == 2
WALL_CLOCK_TIMEOUT == 2

\* ralph.sh, in ticks of one watchdog sleep: the budget of an iteration, the idle
\* budget, and the grace period of the stall check.
ITERATION_TIMEOUT == 3
STALL_TIMEOUT == 2
GRACE == 1

(***************************************************************************)
(* Ledger keys.  A key is the sequence of its characters, so that the      *)
(* prefix, suffix and digit tests of the scripts are computed on text.     *)
(***************************************************************************)
Key_1_1_a == <<"1", "-", "1", "-", "a">>
Key_1_2_b == <<"1", "-", "2", "-", "b">>
Key_11_1_a == <<"1", "1", "-", "1", "-", "a">>

LedgerOrder == <<Key_1_1_a, Key_1_2_b, Key_11_1_a>>

Keys == {LedgerOrder[i] : i \in 1..Len(LedgerOrder)}

NoKey == <<>>

Digits == {"0", "1", "2", "3", "4", "5", "6", "7", "8", "9"}

RECURSIVE LeadingRun(_, _)
LeadingRun(s, class) ==
  IF s = <<>> \/ Head(s) \notin class
  THEN <<>>
  ELSE <<Head(s)>> \o LeadingRun(Tail(s), class)

StartsWith(s, p) == Len(p) <= Len(s) /\ SubSeq(s, 1, Len(p)) = p

EndsWith(s, p) == Len(p) <= Len(s) /\ SubSeq(s, Len(s) - Len(p) + 1, Len(s)) = p

DropFirst(s, n) == SubSeq(s, n + 1, Len(s))

\* /^\d+-\d+-/ of isStoryKey
isStoryKey(k) ==
  LET d1 == LeadingRun(k, Digits)
      r1 == DropFirst(k, Len(d1))
      d2 == IF r1 = <<>> THEN <<>> ELSE LeadingRun(Tail(r1), Digits)
      r2 == IF r1 = <<>> THEN <<>> ELSE DropFirst(Tail(r1), Len(d2))
  IN  /\ d1 # <<>>
      /\ r1 # <<>> /\ Head(r1) = "-"
      /\ d2 # <<>>
      /\ r2 # <<>> /\ Head(r2) = "-"

\* key.match(/^(\d+)-/)
epicNumFromKey(k) == LeadingRun(k, Digits)

Epics == {epicNumFromKey(k) : k \in Keys}

Status == {"backlog", "ready-for-dev", "in-progress", "review", "done"}

NoFile == "nofile"

Tasks == 1..NumTasks

\* The worker invocations of a story that are followed: one more than the tasks
\* of a story can take with MaxRetries attempts each.
MaxAttempts == NumTasks * MaxRetries + 1

NoTask == 0

\* The files of $LOG_DIR the pipeline deals with: the copy of the prompt of an
\* attempt, the log of the worker of an attempt, the notes on failed attempts.
PromptCopy == "attempt-prompt.md"
IterationLog == "iteration-1.log"
Learnings == "failure-learnings.md"

\* The failure context of a prompt: none; the line the extractor prints when it
\* finds no log; what the summarizer printed; the last lines of the log.
NoContext == "none"
\* No summarizer was run: it has no exit status and printed nothing.
NotRun == [status |-> -1, printed |-> FALSE]
Contexts == {NoContext, "no-log", "summarizer-output", "raw-tail"}

Signals == {"CR-PASS", "CR-FIXED", "CR-BLOCKED"}

VARIABLES
  arg1,               \* $1: the story file named on the command line, or NoKey
  RALPH_CHAIN_MODE,   \* the chain-mode toggle of the environment
  EXPLICIT_STORY,
  chainMode,          \* CHAIN_MODE
  skipValidation,     \* SKIP_VALIDATION
  workerKind,         \* the worker of the run: "any", "timeout" (never ends by itself),
                      \* or "damaging" (can leave the JSON block of the story unparseable)
  ledger,             \* sprint-status.yaml: story key -> status
  epicStatus,         \* sprint-status.yaml: epic number -> status of epic-N
  fileStatus,         \* story file: its Status line, or NoFile
  passes,             \* story file: passes of each task of the Ralph Tasks JSON
  manifest,           \* story file: what its Ralph Tasks JSON block is like
  now,                \* $(date +%s), in ticks
  RUN_START,
  lastDoneAt,         \* the time at which a story was last marked done
  spc,                \* ralph.sh: position of the supervisor in its one iteration
  worker,             \* ralph.sh: the process $CLAUDE_PID: running, exited or killed
  outMarker,          \* ralph.sh: $ITER_OUTPUT holds <promise>COMPLETE</promise>
  dirty,              \* ralph.sh: file_fingerprint differs from $PRE_FINGERPRINT
  ITER_START,
  NOW,
  SINCE_CHANGE,
  LAST_CHANGE_TIME,
  TIMED_OUT,
  STALLED,
  supExit,            \* ralph.sh: its exit status, or -1 while it runs
  pc,                 \* position of the pipeline
  STORY_KEY,
  NEEDS_CS_KEY,       \* the key discovery handed to trigger_create_story, or NoKey
  TASK_ID,
  retry,
  TASK_FAILURES,
  LAST_FAILED_TASK_ID,
  CR_ITERATION,
  CR_RESULT,
  exitCode,
  taskLoopResult,     \* last return of run_task_loop for the current story
  validationResult,   \* last return of validate_story for the current story
  cmdFailed,          \* some command of the gate run just finished exited non-zero
  crOutput,           \* signals in the output of the latest iteration of the review loop
  TIMELINE_EVENTS,    \* the notes add_timeline_event has made of escalations
  PROGRESS_REPORT,    \* the notes in the Timeline of the progress report file
  logDir,             \* files of $LOG_DIR, the log directory of the current story
  summarizer,         \* how the summarizer of the latest failed attempt ended, or NotRun
  TASK_FAILURE_CONTEXT, \* what the next prompt carries under "Previous Attempt Failures"
  doc,                \* a story file: the layout and the tasks of its JSON block
  checkRuns,          \* exit statuses the checkCommands of the task would end with now
  attempts,           \* worker invocations made for the current story
  todoAtStart,        \* tasks with passes = false when the story was started
  markerAlways,       \* every attempt of the current story emitted the completion marker
  ownTaskAlways,      \* every attempt of the current story made exactly its task pass
  epicOutcome         \* what check_epic_complete did for the current story

vars == <<now, RUN_START, lastDoneAt, spc, worker, outMarker, dirty, ITER_START, NOW,
          SINCE_CHANGE, LAST_CHANGE_TIME, TIMED_OUT, STALLED, supExit,
          arg1, RALPH_CHAIN_MODE, EXPLICIT_STORY, manifest, chainMode, skipValidation, workerKind, ledger, epicStatus, fileStatus, passes, pc,
          STORY_KEY, NEEDS_CS_KEY, TASK_ID, retry, TASK_FAILURES, LAST_FAILED_TASK_ID,
          CR_ITERATION, CR_RESULT, exitCode, taskLoopResult, validationResult,
          cmdFailed, crOutput, attempts, todoAtStart, markerAlways, ownTaskAlways,
          epicOutcome, checkRuns, doc, logDir, TASK_FAILURE_CONTEXT, summarizer,
          TIMELINE_EVENTS, PROGRESS_REPORT>>

\* The variables of ralph-bmad.sh, the clock aside.
pipelineVars == <<RUN_START, lastDoneAt, arg1, RALPH_CHAIN_MODE, EXPLICIT_STORY, manifest,
                  chainMode, skipValidation, workerKind, ledger, epicStatus, fileStatus,
                  passes, pc, STORY_KEY, NEEDS_CS_KEY, TASK_ID, retry, TASK_FAILURES,
                  LAST_FAILED_TASK_ID, CR_ITERATION, CR_RESULT, exitCode, taskLoopResult,
                  validationResult, cmdFailed, crOutput, attempts, todoAtStart,
                  markerAlways, ownTaskAlways, epicOutcome, checkRuns, doc, logDir,
                  TASK_FAILURE_CONTEXT, summarizer, TIMELINE_EVENTS, PROGRESS_REPORT>>

\* What no step of the pipeline writes: the flags, the worker, the manifests' form,
\* the time, the variables of ralph.sh (RunWorker stands for a whole run of it).
supVars == <<spc, worker, outMarker, dirty, ITER_START, NOW, SINCE_CHANGE,
             LAST_CHANGE_TIME, TIMED_OUT, STALLED, supExit>>
noteVars == <<TIMELINE_EVENTS, PROGRESS_REPORT>>
logVars == <<logDir, TASK_FAILURE_CONTEXT, summarizer>>
settings == <<arg1, RALPH_CHAIN_MODE, chainMode, skipValidation, workerKind, now,
              supVars, doc>>
config == <<settings, manifest>>
clockVars == <<RUN_START, lastDoneAt>>
store == <<ledger, epicStatus, fileStatus>>
storyVars == <<STORY_KEY, NEEDS_CS_KEY, EXPLICIT_STORY>>
taskVars == <<TASK_ID, retry, TASK_FAILURES, LAST_FAILED_TASK_ID>>
crVars == <<CR_ITERATION, CR_RESULT, crOutput>>
gateVars == <<taskLoopResult, validationResult, cmdFailed, epicOutcome>>
histVars == <<attempts, todoAtStart, markerAlways, ownTaskAlways>>

(***************************************************************************)
(* scripts/ralph-sprint-status.js                                          *)
(***************************************************************************)

\* Index in ledger order of the first story entry with the given status, 0 if none
\* (stories.find(...) over the parsed entries).
FirstWith(l, st) ==
  LET hits == {i \in 1..Len(LedgerOrder) :
                 isStoryKey(LedgerOrder[i]) /\ l[LedgerOrder[i]] = st}
  IN  IF hits = {} THEN 0 ELSE CHOOSE i \in hits : \A j \in hits : i <= j

\* A discovery that looks for ready-for-dev before in-progress.
nextStoryReadyFirst(l) ==
  IF FirstWith(l, "ready-for-dev") # 0
  THEN [done |-> FALSE, needsCS |-> FALSE,
        storyKey |-> LedgerOrder[FirstWith(l, "ready-for-dev")]]
  ELSE IF FirstWith(l, "in-progress") # 0
  THEN [done |-> FALSE, needsCS |-> FALSE,
        storyKey |-> LedgerOrder[FirstWith(l, "in-progress")]]
  ELSE IF FirstWith(l, "backlog") # 0
  THEN [done |-> FALSE, needsCS |-> TRUE,
        storyKey |-> LedgerOrder[FirstWith(l, "backlog")]]
  ELSE [done |-> TRUE, needsCS |-> FALSE, storyKey |-> NoKey]

\* A discovery that hands a backlog story over as executable.
nextStoryNoCS(l) ==
  IF FirstWith(l, "in-progress") # 0
  THEN [done |-> FALSE, needsCS |-> FALSE,
        storyKey |-> LedgerOrder[FirstWith(l, "in-progress")]]
  ELSE IF FirstWith(l, "ready-for-dev") # 0
  THEN [done |-> FALSE, needsCS |-> FALSE,
        storyKey |-> LedgerOrder[FirstWith(l, "ready-for-dev")]]
  ELSE IF FirstWith(l, "backlog") # 0
  THEN [done |-> FALSE, needsCS |-> FALSE,
        storyKey |-> LedgerOrder[FirstWith(l, "backlog")]]
  ELSE [done |-> TRUE, needsCS |-> FALSE, storyKey |-> NoKey]

nextStory(l) ==
  IF FirstWith(l, "in-progress") # 0
  THEN [done |-> FALSE, needsCS |-> FALSE,
        storyKey |-> LedgerOrder[FirstWith(l, "in-progress")]]
  ELSE IF FirstWith(l, "ready-for-dev") # 0
  THEN [done |-> FALSE, needsCS |-> FALSE,
        storyKey |-> LedgerOrder[FirstWith(l, "ready-for-dev")]]
  ELSE IF FirstWith(l, "backlog") # 0
  THEN [done |-> FALSE, needsCS |-> TRUE,
        storyKey |-> LedgerOrder[FirstWith(l, "backlog")]]
  ELSE [done |-> TRUE, needsCS |-> FALSE, storyKey |-> NoKey]

\* Keys of the stories of an epic: isStoryKey(key) && key.startsWith(epicNum + '-')
StoriesOfEpic(epicNum) ==
  {k \in Keys : isStoryKey(k) /\ StartsWith(k, epicNum \o <<"-">>)}

\* An allDone that is satisfied by some story instead of every story.
epicStoriesSome(epicNum, l, es) ==
  [epicStatus |-> IF epicNum \in DOMAIN es THEN es[epicNum] ELSE "unknown",
   allDone |-> \E k \in StoriesOfEpic(epicNum) : l[k] = "done"]

epicStories(epicNum, l, es) ==
  [epicStatus |-> IF epicNum \in DOMAIN es THEN es[epicNum] ELSE "unknown",
   allDone |-> /\ StoriesOfEpic(epicNum) # {}
               /\ \A k \in StoriesOfEpic(epicNum) : l[k] = "done"]

\* update-status epic-N <newStatus>: rewrites the line whose key is exactly epic-N;
\* a key that is not in the ledger leaves the ledger as it is.
updateStatus(es, epicNum, newStatus) ==
  IF epicNum \in DOMAIN es THEN [es EXCEPT ![epicNum] = newStatus] ELSE es

(***************************************************************************)
(* scripts/ralph-extract-task.js                                           *)
(***************************************************************************)
Count(p, b) == Cardinality({i \in Tasks : p[i] = b})

\* A find that keeps the last match instead of the first.
nextTaskLast(p) ==
  IF \E i \in Tasks : ~p[i]
  THEN CHOOSE i \in Tasks : ~p[i] /\ \A j \in Tasks : ~p[j] => j <= i
  ELSE NoTask

\* tasks.find((t) => t.passes === false)
nextTask(p) ==
  IF \E i \in Tasks : ~p[i]
  THEN CHOOSE i \in Tasks : ~p[i] /\ \A j \in Tasks : ~p[j] => i <= j
  ELSE NoTask

\* An extractor that looks at the first task only.
ExtractTaskFirstOnly(p) ==
  IF ~p[1]
  THEN [done |-> FALSE, taskId |-> 1,
        completedCount |-> Count(p, TRUE), totalTasks |-> NumTasks]
  ELSE [done |-> TRUE, taskId |-> NoTask,
        completedCount |-> NumTasks, totalTasks |-> NumTasks]

\* An extractor that counts as completed the tasks listed before the next one.
ExtractTaskPrefixCount(p) ==
  IF nextTask(p) # NoTask
  THEN [done |-> FALSE, taskId |-> nextTask(p),
        completedCount |-> nextTask(p) - 1, totalTasks |-> NumTasks]
  ELSE [done |-> TRUE, taskId |-> NoTask,
        completedCount |-> NumTasks, totalTasks |-> NumTasks]

ExtractTask(p) ==
  IF nextTask(p) # NoTask
  THEN [done |-> FALSE, taskId |-> nextTask(p),
        completedCount |-> Count(p, TRUE), totalTasks |-> NumTasks]
  ELSE [done |-> TRUE, taskId |-> NoTask,
        completedCount |-> NumTasks, totalTasks |-> NumTasks]

(***************************************************************************)
(* scripts/ralph-bmad.sh: helpers                                          *)
(***************************************************************************)

\* A match on the key alone, whatever the status of the line.
LineMatchesKey(l, j, key, from) == EndsWith(j, key)

\* grep -q "${STORY_KEY}: $from": a ledger line "<key>: <status>" contains the
\* pattern when its key ends with STORY_KEY and its status is from.
LineMatches(l, j, key, from) == EndsWith(j, key) /\ l[j] = from

\* update_status, ledger part: sed rewrites every line that contains the pattern.
UpdateLedger(l, key, from, to) ==
  [j \in Keys |-> IF LineMatches(l, j, key, from) THEN to ELSE l[j]]

\* update_status, story-file part: s/^Status: from/Status: to/ in $STORY_FILE.
UpdateFile(f, key, from, to) ==
  IF key \in Keys /\ f[key] = from THEN [f EXCEPT ![key] = to] ELSE f

\* A write-back that keeps passes of the verified task only.
AutoVerifyWriteOnly(p, taskId) == [i \in Tasks |-> i = taskId]

\* auto_verify_task: tasks.find(t => t.id === taskId).passes = true, then the
\* JSON block is written back.
AutoVerifyWrite(p, taskId) == [p EXCEPT ![taskId] = TRUE]

\* Exit status of "cmd 2>&1 | tail -N": without pipefail it is the status of tail.
TailStatus == 0
PipelineStatus(first, last) == last

\* A classification whose fallback is CR-FIXED.
ClassifySignalFixed(out) ==
  IF "CR-PASS" \in out THEN "CR-PASS"
  ELSE IF "CR-BLOCKED" \in out THEN "CR-BLOCKED"
  ELSE "CR-FIXED"

\* [[ "$cr_output" == *"<cr-signal>...</cr-signal>"* ]] chain of run_cr_gate
ClassifySignal(out) ==
  IF "CR-PASS" \in out THEN "CR-PASS"
  ELSE IF "CR-FIXED" \in out THEN "CR-FIXED"
  ELSE "CR-BLOCKED"

\* A loop test with -le in place of -lt.
CRContinuesOver(result, iteration) ==
  result = "CR-FIXED" /\ iteration <= MaxCRIterations

\* while [ "$CR_RESULT" = "CR-FIXED" ] && [ $CR_ITERATION -lt $MAX_CR_ITERATIONS ]
CRContinues(result, iteration) == result = "CR-FIXED" /\ iteration < MaxCRIterations

\* A verdict that also accepts CR-FIXED.
CRVerdictLenient(result) ==
  IF result \in {"CR-PASS", "CR-FIXED"} THEN "done" ELSE "review"

\* After the review loop: CR-PASS marks the story done, any other result review.
CRVerdict(result) == IF result = "CR-PASS" THEN "done" ELSE "review"

\* A retry loop that runs once more than MAX_RETRIES.
RetriesLeftOver(r) == r <= MaxRetries

\* for ((retry=1; retry<=MAX_RETRIES; retry++)): another attempt follows attempt r
RetriesLeft(r) == r < MaxRetries

\* [ "$UPDATED_DONE" = "true" ] || [ "$UPDATED_ID" != "$TASK_ID" ]
\* A check that takes no attempt for a success.
TaskNeverPasses(u, taskId) == FALSE

\* A check that takes every attempt for a success.
TaskAlwaysPasses(u, taskId) == TRUE

TaskNowPasses(u, taskId) == u.done \/ u.taskId # taskId

\* grep -oE '^\d+': BSD grep reads \d as a digit, GNU grep reads it as the letter d.
GrepEpicNum(key, digitClass) ==
  IF digitClass THEN LeadingRun(key, Digits) ELSE LeadingRun(key, {"d"})

(***************************************************************************)
(* Initial state: the ledger and the story files as a run finds them.      *)
(***************************************************************************)
AllFalse == [i \in Tasks |-> FALSE]
AllTrue == [i \in Tasks |-> TRUE]
Prefix(n) == [i \in Tasks |-> i <= n]

\* Story files a run can find for a ledger status: no file yet for a backlog
\* story, otherwise a file whose Status line agrees with the ledger.
InitFile(st) == IF st = "backlog" THEN NoFile ELSE st

InitPasses(st) ==
  IF st = "done" THEN {AllTrue}
  ELSE IF st = "in-progress" THEN {Prefix(n) : n \in 0..NumTasks}
  ELSE {AllFalse}

\* How far a status is along the lifecycle.
Rank(st) ==
  CASE st = "backlog" -> 0
    [] st = "ready-for-dev" -> 1
    [] st = "in-progress" -> 2
    [] OTHER -> 3

\* Ledgers of a sprint that is worked in ledger order: no entry is further along
\* the lifecycle than an entry listed before it.
InLedgerOrder(l) ==
  \A i \in 1..Len(LedgerOrder), j \in 1..Len(LedgerOrder) :
    i < j => Rank(l[LedgerOrder[i]]) >= Rank(l[LedgerOrder[j]])

\* The shell variables of a run that has just started.
\* ralph.sh 1 at the start of its iteration: the worker has just been started.
InitSupervisor ==
  /\ spc = "poll"
  /\ worker = "running"
  /\ outMarker = FALSE
  /\ dirty = FALSE
  /\ ITER_START = 0
  /\ NOW = ITER_START
  /\ SINCE_CHANGE = 0
  /\ LAST_CHANGE_TIME = ITER_START
  /\ TIMED_OUT = FALSE
  /\ STALLED = FALSE
  /\ supExit = -1

\* A run begins with no log directory and no failure context.
InitLogs ==
  /\ logDir = {}
  /\ TASK_FAILURE_CONTEXT = NoContext
  /\ summarizer = NotRun
  /\ TIMELINE_EVENTS = {}
  /\ PROGRESS_REPORT = {}

InitShell ==
  /\ pc = "discover"
  /\ InitSupervisor
  /\ now = 0
  /\ RUN_START = now
  /\ lastDoneAt = 0
  /\ STORY_KEY = NoKey
  /\ NEEDS_CS_KEY = NoKey
  /\ TASK_ID = NoTask
  /\ retry = 0
  /\ TASK_FAILURES = 0
  /\ LAST_FAILED_TASK_ID = NoTask
  /\ CR_ITERATION = 0
  /\ CR_RESULT = "none"
  /\ exitCode = -1
  /\ taskLoopResult = "none"
  /\ validationResult = "none"
  /\ cmdFailed = FALSE
  /\ crOutput = {}
  /\ checkRuns = <<>>
  /\ attempts = 0
  /\ todoAtStart = 0
  /\ markerAlways = TRUE
  /\ ownTaskAlways = TRUE
  /\ epicOutcome = "none"

InitState ==
  /\ skipValidation \in BOOLEAN
  /\ ledger \in [Keys -> Status]
  /\ InLedgerOrder(ledger)
  /\ \E st \in {"in-progress", "done"} : epicStatus = [e \in Epics |-> st]
  /\ fileStatus = [k \in Keys |-> InitFile(ledger[k])]
  /\ passes \in [Keys -> [Tasks -> BOOLEAN]]
  /\ \A k \in Keys : passes[k] \in InitPasses(ledger[k])
  /\ doc = [layout |-> "indent2", tasks |-> <<>>, log |-> <<>>]
  /\ InitLogs
  /\ InitShell

\* The flags and the first argument: a story file named on the command line that
\* exists is the explicit story and turns chaining off.
ParseArgs(arg) ==
  /\ arg1 = arg
  /\ RALPH_CHAIN_MODE \in BOOLEAN
  /\ EXPLICIT_STORY = IF arg # NoKey /\ fileStatus[arg] # NoFile THEN arg ELSE NoKey
  /\ chainMode = IF EXPLICIT_STORY # NoKey THEN FALSE ELSE RALPH_CHAIN_MODE

\* Forms of a Ralph Tasks JSON block: a list of complete tasks; no block or a block
\* JSON.parse rejects; a list in which some task lacks title, steps,
\* acceptanceCriteria or checkCommands.
ManifestForms == {"ok", "unparseable", "incomplete", "numeric-ids"}

WellFormed == [k \in Keys |-> "ok"]

Init == workerKind = "any" /\ InitState /\ ParseArgs(NoKey) /\ manifest = WellFormed

\* A run over a ledger whose first story is open and has a malformed manifest.
InitMalformed ==
  /\ workerKind = "any"
  /\ InitState
  /\ ledger[LedgerOrder[1]] \in {"in-progress", "ready-for-dev"}
  /\ ParseArgs(NoKey)
  /\ \E m \in {"unparseable", "incomplete"} :
       manifest = [WellFormed EXCEPT ![LedgerOrder[1]] = m]

\* A run that names a story file on the command line.
InitExplicit ==
  /\ workerKind = "any"
  /\ InitState
  /\ \E k \in Keys : ParseArgs(k)
  /\ manifest = WellFormed

\* A single-story run over a ledger whose entries stand in any order of statuses.
InitAnyLedger ==
  /\ workerKind = "any"
  /\ arg1 = NoKey
  /\ RALPH_CHAIN_MODE = FALSE
  /\ EXPLICIT_STORY = NoKey
  /\ chainMode = RALPH_CHAIN_MODE
  /\ manifest = WellFormed
  /\ skipValidation = TRUE
  /\ ledger \in [Keys -> Status]
  /\ epicStatus = [e \in Epics |-> "in-progress"]
  /\ fileStatus = [k \in Keys |-> InitFile(ledger[k])]
  /\ passes = [k \in Keys |-> IF ledger[k] = "done" THEN AllTrue ELSE AllFalse]
  /\ doc = [layout |-> "indent2", tasks |-> <<>>, log |-> <<>>]
  /\ InitLogs
  /\ InitShell

\* A run whose worker is killed by the watchdog of ralph.sh at every attempt.
InitTimeoutWorker ==
  /\ workerKind = "timeout"
  /\ InitState
  /\ ParseArgs(NoKey)
  /\ manifest = WellFormed

(***************************************************************************)
(* scripts/ralph-bmad.sh: the pipeline                                     *)
(***************************************************************************)

\* add_timeline_event for each of the events, then update_progress_report, which
\* writes TIMELINE_EVENTS under "## Timeline" of the report.  Of the events only
\* those that tell of an escalation are kept.
Noted(events) ==
  /\ TIMELINE_EVENTS' = TIMELINE_EVENTS \cup events
  /\ PROGRESS_REPORT' = TIMELINE_EVENTS'

\* The main loop after run_task_loop failed: the event comes after the break of
\* single-story mode.
TaskLoopFailedEvents(chain) == IF chain THEN {"task loop FAILED, marked review"} ELSE {}

\* The run ends: break out of the outer loop and "exit 0", or "exit 1".
Stop(code) ==
  /\ pc' = "exit"
  /\ exitCode' = code

\* An escalation after which the task loop takes its next task.
EscalateAndGoOn(code) ==
  /\ ledger' = UpdateLedger(ledger, STORY_KEY, "in-progress", "review")
  /\ fileStatus' = UpdateFile(fileStatus, STORY_KEY, "in-progress", "review")
  /\ pc' = "task_select"
  /\ exitCode' = code

\* A story is escalated: update_status "in-progress" "review", then the run ends.
Escalate(code) ==
  /\ ledger' = UpdateLedger(ledger, STORY_KEY, "in-progress", "review")
  /\ fileStatus' = UpdateFile(fileStatus, STORY_KEY, "in-progress", "review")
  /\ Stop(code)

\* check_wall_clock finds elapsed >= WALL_CLOCK_TIMEOUT at one of its call sites:
\* the top of the outer loop, of the task loop and of the retry loop.
WallClockTimeout ==
  /\ pc \in {"discover", "task_select", "attempt"}
  /\ IF STORY_KEY # NoKey /\ fileStatus[STORY_KEY] # NoFile
     THEN Escalate(1)
     ELSE Stop(1) /\ UNCHANGED <<ledger, fileStatus>>
  /\ Noted({"Wall-clock timeout reached"})
  /\ UNCHANGED <<config, logVars, checkRuns, clockVars, epicStatus, passes, storyVars, taskVars, crVars, gateVars,
                 histVars>>

\* Phase 0 and the start of a story: discover_next_story, the transition
\* ready-for-dev -> in-progress, and the entry of run_task_loop.
Discover ==
  /\ pc = "discover"
  /\ LET explicit == EXPLICIT_STORY # NoKey
         r == nextStory(ledger)
         key == IF explicit THEN EXPLICIT_STORY ELSE r.storyKey
     IN  IF ~explicit /\ r.done
         THEN /\ Stop(0)
              /\ UNCHANGED <<store, storyVars, taskVars, gateVars, histVars, crVars, logDir>>
         ELSE IF ~explicit /\ (r.needsCS \/ fileStatus[key] = NoFile)
         THEN /\ pc' = "create_story"
              /\ NEEDS_CS_KEY' = key
              /\ UNCHANGED <<store, STORY_KEY, EXPLICIT_STORY, taskVars, gateVars,
                             histVars, crVars, exitCode, logDir>>
         ELSE /\ STORY_KEY' = key
              /\ UNCHANGED <<NEEDS_CS_KEY, EXPLICIT_STORY>>
              /\ IF fileStatus[key] = "ready-for-dev"
                 THEN /\ ledger' = UpdateLedger(ledger, key, "ready-for-dev", "in-progress")
                      /\ fileStatus' = UpdateFile(fileStatus, key, "ready-for-dev",
                                                  "in-progress")
                 ELSE UNCHANGED <<ledger, fileStatus>>
              /\ TASK_FAILURES' = 0
              /\ LAST_FAILED_TASK_ID' = NoTask
              /\ TASK_ID' = NoTask
              /\ retry' = 0
              /\ taskLoopResult' = "none"
              /\ validationResult' = "none"
              /\ cmdFailed' = FALSE
              /\ epicOutcome' = "none"
              /\ crOutput' = {}
              /\ CR_ITERATION' = 0
              /\ CR_RESULT' = "none"
              /\ attempts' = 0
              /\ todoAtStart' = Count(passes[key], FALSE)
              /\ markerAlways' = TRUE
              /\ ownTaskAlways' = TRUE
              /\ logDir' = {}
              /\ pc' = "task_select"
              /\ UNCHANGED <<epicStatus, exitCode>>
  /\ IF pc' = "create_story"
     THEN UNCHANGED noteVars
     ELSE Noted({})
  /\ UNCHANGED <<config, TASK_FAILURE_CONTEXT, summarizer, checkRuns, clockVars, passes>>

\* Phase 5: trigger_create_story for the key discovery handed over.  The generator
\* is external: it may or may not write the story file and advance the ledger.
CreateStory ==
  /\ pc = "create_story"
  /\ LET key == NEEDS_CS_KEY
     IN  \E able \in BOOLEAN, created \in BOOLEAN, advanced \in BOOLEAN :
           IF ~able
           THEN Stop(0) /\ UNCHANGED <<ledger, fileStatus, NEEDS_CS_KEY>>
           ELSE /\ fileStatus' =
                     IF created /\ fileStatus[key] = NoFile
                     THEN [fileStatus EXCEPT ![key] = "ready-for-dev"]
                     ELSE fileStatus
                /\ ledger' =
                     IF advanced /\ ledger[key] = "backlog"
                     THEN [ledger EXCEPT ![key] = "ready-for-dev"]
                     ELSE ledger
                /\ IF fileStatus'[key] # NoFile
                   THEN /\ pc' = "discover"
                        /\ NEEDS_CS_KEY' = NoKey
                        /\ UNCHANGED exitCode
                   ELSE Stop(0) /\ UNCHANGED NEEDS_CS_KEY
  /\ Noted({})
  /\ UNCHANGED <<config, logVars, checkRuns, clockVars, epicStatus, passes, STORY_KEY, EXPLICIT_STORY, taskVars,
                 crVars, gateVars, histVars>>

\* An extractor that finds a next task in any block.
ExtractorStatusOk(form) == 0

\* The exit status of the extractor: 1 when there is no JSON block or JSON.parse
\* throws, 0 otherwise (the fields of the tasks are not looked at).
ExtractorStatus(form) == IF form = "unparseable" THEN 1 ELSE 0

\* run_task_loop, top of the while loop: extract the next task.
SelectTask ==
  /\ pc = "task_select"
  /\ LET t == ExtractTask(passes[STORY_KEY])
     IN  IF ExtractorStatus(manifest[STORY_KEY]) # 0
         THEN /\ taskLoopResult' = "failed"
              /\ Escalate(0)
              /\ UNCHANGED <<TASK_ID, retry, TASK_FAILURE_CONTEXT>>
         ELSE IF t.done
         THEN /\ taskLoopResult' = "ok"
              /\ pc' = "validate"
              /\ UNCHANGED <<ledger, fileStatus, TASK_ID, retry, exitCode,
                             TASK_FAILURE_CONTEXT>>
         ELSE IF t.taskId = LAST_FAILED_TASK_ID
         THEN /\ taskLoopResult' = "failed"
              /\ Escalate(0)
              /\ UNCHANGED <<TASK_ID, retry, TASK_FAILURE_CONTEXT>>
         ELSE /\ TASK_ID' = t.taskId
              /\ retry' = 1
              /\ TASK_FAILURE_CONTEXT' = NoContext
              /\ pc' = "attempt"
              /\ UNCHANGED <<ledger, fileStatus, taskLoopResult, exitCode>>
  /\ IF ExtractorStatus(manifest[STORY_KEY]) # 0
     THEN Noted(TaskLoopFailedEvents(chainMode))
     ELSE IF ~ExtractTask(passes[STORY_KEY]).done
             /\ ExtractTask(passes[STORY_KEY]).taskId = LAST_FAILED_TASK_ID
     THEN Noted({"Stuck loop detected"} \cup TaskLoopFailedEvents(chainMode))
     ELSE Noted({})
  /\ UNCHANGED <<config, logDir, summarizer, checkRuns, clockVars, epicStatus, passes, storyVars, TASK_FAILURES,
                 LAST_FAILED_TASK_ID, crVars, validationResult, cmdFailed, epicOutcome,
                 histVars>>

\* Exit statuses a command can end with.
ExitStatus == {0, 1}

\* What the checkCommands of a task can end with, one status for each command in
\* declared order; the empty sequence for a task with no checkCommands.
CheckCommandRuns == UNION {[1..n -> ExitStatus] : n \in 0..MaxCmds}

\* The "while read cmd" loop from command i on: the commands run and all_passed.
RECURSIVE RunCheckCommands(_, _)
RunCheckCommands(runs, i) ==
  IF i > Len(runs)
  THEN [ran |-> i - 1, all_passed |-> TRUE]
  ELSE IF runs[i] = 0
  THEN RunCheckCommands(runs, i + 1)
  ELSE [ran |-> i, all_passed |-> FALSE]

\* An auto-verification that succeeds on a task with no checkCommands.
AutoVerifyEmptyOk(runs) ==
  [ran |-> RunCheckCommands(runs, 1).ran, ok |-> RunCheckCommands(runs, 1).all_passed]

\* auto_verify_task: return 1 with no checkCommands; otherwise run them up to the
\* first that fails, and return 0 when all passed.
auto_verify_task(runs) ==
  IF runs = <<>>
  THEN [ran |-> 0, ok |-> FALSE]
  ELSE [ran |-> RunCheckCommands(runs, 1).ran,
        ok |-> RunCheckCommands(runs, 1).all_passed]

\* One attempt: PROMPT.md is copied to $LOG_DIR and ./ralph.sh 1 runs the worker
\* on it.  The worker may set passes of tasks of the story to true and may or may
\* not emit the marker, and it ends by itself or is killed on timeout; "|| true"
\* drops the exit status.  ralph.sh keeps the output of the worker in
\* $RALPH_TMP/iteration-1.log and removes $RALPH_TMP when it exits.
RunWorker ==
  /\ pc = "attempt"
  /\ attempts < MaxAttempts
  /\ \E marker \in BOOLEAN, timedOut \in BOOLEAN :
     \E W \in SUBSET {i \in Tasks : ~passes[STORY_KEY][i]} :
       /\ workerKind = "timeout" => timedOut
       /\ \E damaged \in (IF workerKind = "damaging" THEN BOOLEAN ELSE {FALSE}) :
            manifest' = IF damaged
                        THEN [manifest EXCEPT ![STORY_KEY] = "unparseable"]
                        ELSE manifest
       /\ passes' = [passes EXCEPT ![STORY_KEY] = [i \in Tasks |-> @[i] \/ i \in W]]
       /\ markerAlways' = (markerAlways /\ marker)
       /\ ownTaskAlways' = (ownTaskAlways /\ W = {TASK_ID})
  /\ checkRuns' \in CheckCommandRuns
  /\ attempts' = attempts + 1
  /\ logDir' = logDir \cup {PromptCopy}
  /\ pc' = "check"
  /\ UNCHANGED <<settings, noteVars, TASK_FAILURE_CONTEXT, summarizer, clockVars, store, storyVars, taskVars, crVars, gateVars, todoAtStart,
                 exitCode>>

\* How the summarizer can end: by itself with status 0 or not, or killed by
\* "timeout 30" (status 124); having printed text on its standard output or not.
SummaryOutcomes == [status : {0, 1, 124}, printed : BOOLEAN]

\* extract_failure_learnings "$ITER_LOG" "$TASK_ID" "$retry": no log, no analysis;
\* otherwise the text the summarizer printed, its exit status dropped by "|| true",
\* or the tail of the log when it printed nothing, appended to the notes.
extract_failure_learnings(files, out) ==
  IF IterationLog \notin files
  THEN [context |-> "no-log", files |-> files, ran |-> NotRun]
  ELSE [context |-> IF out.printed THEN "summarizer-output" ELSE "raw-tail",
        files |-> files \cup {Learnings}, ran |-> out]

\* cleanup_task_logs: rm -f $LOG_DIR/<task>-*.log $LOG_DIR/<task>-*-prompt.md
cleanup_task_logs(files) == files \ {PromptCopy}

\* tasks.find(t => t.id === taskId) of the write-back, taskId being a string of
\* the command line: a task whose id is a JSON number is not found, and without
\* a block that parses the script ends before it.
TaskFound(form) == form \notin {"numeric-ids", "unparseable"}

\* UPDATED_JSON=$(node "$TASK_EXTRACTOR" "$STORY_FILE" 2>&1) and the two node -e
\* readers of it: when the extractor printed an error instead of JSON, JSON.parse
\* throws in both, UPDATED_DONE and UPDATED_ID are empty.
Reextract(form, p) ==
  IF ExtractorStatus(form) # 0
  THEN [done |-> FALSE, taskId |-> NoTask]
  ELSE ExtractTask(p)

\* After the attempt: re-extract (step 1), auto-verify (step 2), otherwise the
\* next retry, or the failure of the task loop and of the story.
CheckAttempt ==
  /\ pc = "check"
  /\ LET u == Reextract(manifest[STORY_KEY], passes[STORY_KEY])
     IN  IF TaskNowPasses(u, TASK_ID)
         THEN /\ pc' = "task_select"
              /\ UNCHANGED <<ledger, fileStatus, passes, retry, TASK_FAILURES,
                             LAST_FAILED_TASK_ID, taskLoopResult, exitCode>>
         ELSE   IF auto_verify_task(checkRuns).ok
                THEN /\ passes' = [passes EXCEPT
                                     ![STORY_KEY] =
                                        IF TaskFound(manifest[STORY_KEY])
                                        THEN AutoVerifyWrite(@, TASK_ID)
                                        ELSE @]
                     /\ pc' = "task_select"
                     /\ UNCHANGED <<ledger, fileStatus, retry, TASK_FAILURES,
                                    LAST_FAILED_TASK_ID, taskLoopResult, exitCode>>
                ELSE IF RetriesLeft(retry)
                THEN /\ retry' = retry + 1
                     /\ pc' = "attempt"
                     /\ UNCHANGED <<ledger, fileStatus, passes, TASK_FAILURES,
                                    LAST_FAILED_TASK_ID, taskLoopResult, exitCode>>
                ELSE /\ LAST_FAILED_TASK_ID' = TASK_ID
                     /\ TASK_FAILURES' = TASK_FAILURES + 1
                     /\ taskLoopResult' = "failed"
                     /\ Escalate(0)
                     /\ UNCHANGED <<passes, retry>>
  /\ IF \/ TaskNowPasses(Reextract(manifest[STORY_KEY], passes[STORY_KEY]), TASK_ID)
        \/ auto_verify_task(checkRuns).ok
     THEN /\ logDir' = cleanup_task_logs(logDir)
          /\ UNCHANGED <<TASK_FAILURE_CONTEXT, summarizer>>
     ELSE \E out \in SummaryOutcomes :
            /\ logDir' = extract_failure_learnings(logDir, out).files
            /\ TASK_FAILURE_CONTEXT' = extract_failure_learnings(logDir, out).context
            /\ summarizer' = extract_failure_learnings(logDir, out).ran
  /\ checkRuns' = <<>>
  /\ IF \/ TaskNowPasses(Reextract(manifest[STORY_KEY], passes[STORY_KEY]), TASK_ID)
        \/ auto_verify_task(checkRuns).ok
     THEN Noted({})
     ELSE IF RetriesLeft(retry)
     THEN UNCHANGED noteVars
     ELSE Noted({"Task FAILED after MAX_RETRIES attempts"}
                \cup TaskLoopFailedEvents(chainMode))
  /\ UNCHANGED <<config, clockVars, epicStatus, storyVars, TASK_ID, crVars, validationResult,
                 cmdFailed, epicOutcome, histVars>>

\* The verdict of a gate that runs "if ! <cmd> 2>&1 | tail -N; then return 1" for
\* the build, then the test suite, then (when there is one) the extra validation.
GateVerdict(build, test, hasExtra, extra) ==
  IF PipelineStatus(build, TailStatus) # 0 THEN "failed"
  ELSE IF PipelineStatus(test, TailStatus) # 0 THEN "failed"
  ELSE IF hasExtra /\ PipelineStatus(extra, TailStatus) # 0 THEN "failed"
  ELSE "passed"

\* Phase 2: validate_story, and the escalation of the main loop when it fails.
ValidateStory ==
  /\ pc = "validate"
  /\ IF skipValidation
     THEN /\ validationResult' = "skipped"
          /\ pc' = "cr_gate"
          /\ UNCHANGED <<ledger, fileStatus, cmdFailed, exitCode>>
     ELSE \E build \in ExitStatus, test \in ExitStatus,
             hasExtra \in BOOLEAN, extra \in ExitStatus :
            /\ cmdFailed' = (build # 0 \/ test # 0 \/ (hasExtra /\ extra # 0))
            /\ validationResult' = GateVerdict(build, test, hasExtra, extra)
            /\ IF validationResult' = "passed"
               THEN pc' = "cr_gate" /\ UNCHANGED <<ledger, fileStatus, exitCode>>
               ELSE Escalate(0)
  /\ IF skipValidation
     THEN UNCHANGED noteVars
     ELSE IF validationResult' = "passed"
     THEN Noted({})
     ELSE Noted({"validation FAILED"})
  /\ UNCHANGED <<config, logVars, checkRuns, clockVars, epicStatus, passes, storyVars, taskVars, crVars,
                 taskLoopResult, epicOutcome, histVars>>

\* Phase 3: entry of run_cr_gate.  Without cr-prompt.template.md the gate is
\* skipped and returns success without touching the status.
EnterCRGate ==
  /\ pc = "cr_gate"
  /\ \E template \in BOOLEAN :
       IF template
       THEN /\ CR_ITERATION' = 0
            /\ CR_RESULT' = "CR-FIXED"
            /\ pc' = "cr_loop"
       ELSE /\ pc' = "epic"
            /\ UNCHANGED <<CR_ITERATION, CR_RESULT>>
  /\ cmdFailed' = FALSE
  /\ IF pc' = "cr_loop" THEN Noted({}) ELSE UNCHANGED noteVars
  /\ UNCHANGED <<config, logVars, checkRuns, clockVars, store, passes, storyVars, taskVars, crOutput, taskLoopResult,
                 validationResult, epicOutcome, histVars, exitCode>>

\* One review iteration: the reviewer's output holds any of the three signals.
CRIterate ==
  /\ pc = "cr_loop"
  /\ CRContinues(CR_RESULT, CR_ITERATION)
  /\ CR_ITERATION' = CR_ITERATION + 1
  /\ \E out \in SUBSET Signals :
       /\ crOutput' = out
       /\ CR_RESULT' = ClassifySignal(out)
  /\ UNCHANGED <<config, noteVars, logVars, checkRuns, clockVars, store, passes, pc, storyVars, taskVars, gateVars, histVars,
                 exitCode>>

\* The review loop has ended: CR-PASS marks the story done, anything else review.
FinishCRGate ==
  /\ pc = "cr_loop"
  /\ ~CRContinues(CR_RESULT, CR_ITERATION)
  /\ IF CRVerdict(CR_RESULT) = "done"
     THEN /\ ledger' = UpdateLedger(ledger, STORY_KEY, "in-progress", "done")
          /\ fileStatus' = UpdateFile(fileStatus, STORY_KEY, "in-progress", "done")
          /\ pc' = "epic"
          /\ lastDoneAt' = now
          /\ UNCHANGED exitCode
     ELSE Escalate(0) /\ UNCHANGED lastDoneAt
  /\ crOutput' = {}
  /\ IF CRVerdict(CR_RESULT) = "done"
     THEN Noted({})
     ELSE Noted({CR_RESULT})
  /\ UNCHANGED <<config, logVars, checkRuns, RUN_START, epicStatus, passes, storyVars, taskVars, CR_ITERATION,
                 CR_RESULT, gateVars, histVars>>

\* Phase 4: check_epic_complete.
CheckEpicComplete ==
  /\ pc = "epic"
  /\ pc' = "chain"
  /\ IF skipValidation
     THEN /\ epicOutcome' = "skipped"
          /\ UNCHANGED <<epicStatus, cmdFailed>>
     ELSE \E digitClass \in BOOLEAN :
            LET epic_num == GrepEpicNum(STORY_KEY, digitClass)
                r == epicStories(epic_num, ledger, epicStatus)
            IN  IF epic_num = <<>>
                THEN /\ epicOutcome' = "no-epic"
                     /\ UNCHANGED <<epicStatus, cmdFailed>>
                ELSE IF ~r.allDone
                THEN /\ epicOutcome' = "not-all-done"
                     /\ UNCHANGED <<epicStatus, cmdFailed>>
                ELSE IF r.epicStatus = "done"
                THEN /\ epicOutcome' = "already-done"
                     /\ UNCHANGED <<epicStatus, cmdFailed>>
                ELSE \E build \in ExitStatus, test \in ExitStatus,
                        hasScript \in BOOLEAN, script \in ExitStatus :
                       /\ cmdFailed' =
                            (build # 0 \/ test # 0 \/ (hasScript /\ script # 0))
                       /\ IF GateVerdict(build, test, hasScript, script) = "passed"
                          THEN /\ epicStatus' = updateStatus(epicStatus, epic_num, "done")
                               /\ epicOutcome' = "done"
                          ELSE /\ epicStatus' = updateStatus(epicStatus, epic_num, "review")
                               /\ epicOutcome' = "review"
  /\ IF epicOutcome' \in {"done", "review"} THEN Noted({}) ELSE UNCHANGED noteVars
  /\ UNCHANGED <<config, logVars, checkRuns, clockVars, ledger, fileStatus, passes, storyVars, taskVars, crVars,
                 taskLoopResult, validationResult, histVars, exitCode>>

\* A chain decision that never stops.
StopsAfterStoryNever(chain) == FALSE

\* if [ "$CHAIN_MODE" != "true" ]; then ... break
StopsAfterStory(chain) == ~chain

\* A chain step that keeps the start of the run as the start of the budget.
RunStartKept(start, date) == start

\* RUN_START=$(date +%s): the next story gets a full budget.
RunStartReset(start, date) == date

\* The end of a completed story: the log directory is emptied but for the notes
\* on failed attempts.  Phase 6: chain to the next story, or stop in single-story
\* mode.
ChainDecision ==
  /\ pc = "chain"
  /\ logDir' = logDir \cap {Learnings}
  /\ IF ~StopsAfterStory(chainMode)
     THEN /\ pc' = "discover"
          /\ RUN_START' = RunStartReset(RUN_START, now)
          /\ NEEDS_CS_KEY' = NoKey
          /\ EXPLICIT_STORY' = NoKey
          /\ UNCHANGED exitCode
     ELSE Stop(0) /\ UNCHANGED <<NEEDS_CS_KEY, EXPLICIT_STORY, RUN_START>>
  /\ IF StopsAfterStory(chainMode) THEN Noted({}) ELSE UNCHANGED noteVars
  /\ UNCHANGED <<config, TASK_FAILURE_CONTEXT, summarizer, checkRuns, lastDoneAt, store, passes, STORY_KEY, taskVars, crVars, gateVars,
                 histVars>>

Next ==
  \/ WallClockTimeout
  \/ Discover
  \/ CreateStory
  \/ SelectTask
  \/ RunWorker
  \/ CheckAttempt
  \/ ValidateStory
  \/ EnterCRGate
  \/ CRIterate
  \/ FinishCRGate
  \/ CheckEpicComplete
  \/ ChainDecision

Spec == Init /\ [][Next]_vars

\* Time passes while the run goes on.
Tick ==
  /\ pc # "exit"
  /\ now < MaxTime
  /\ now' = now + 1
  /\ UNCHANGED <<supVars, pipelineVars>>

\* [ $elapsed -ge $WALL_CLOCK_TIMEOUT ]
Breached == now - RUN_START >= WALL_CLOCK_TIMEOUT

\* The pipeline with its clock: at the top of the outer loop, of the task loop and
\* of the retry loop check_wall_clock runs first, and the step is taken only when
\* the budget is not spent.
NextClock ==
  \/ Tick
  \/ Breached /\ WallClockTimeout
  \/ ~Breached /\ Discover
  \/ CreateStory
  \/ ~Breached /\ SelectTask
  \/ ~Breached /\ RunWorker
  \/ CheckAttempt
  \/ ValidateStory
  \/ EnterCRGate
  \/ CRIterate
  \/ FinishCRGate
  \/ CheckEpicComplete
  \/ ChainDecision

\* A chained run without validation, over a ledger whose first story is to be
\* worked on and whose last story is in backlog.
InitClock ==
  /\ workerKind = "any"
  /\ InitState
  /\ ParseArgs(NoKey)
  /\ manifest = WellFormed
  /\ chainMode
  /\ skipValidation
  /\ ledger[LedgerOrder[1]] \in {"in-progress", "ready-for-dev"}
  /\ ledger[LedgerOrder[Len(LedgerOrder)]] = "backlog"

SpecClock == InitClock /\ [][NextClock]_vars

(***************************************************************************)
(* scripts/ralph.sh: one iteration of the supervisor ("./ralph.sh 1")      *)
(***************************************************************************)

\* The worker changes a file of the workspace.
WorkerChanges ==
  /\ worker = "running" /\ supExit = -1
  /\ ~dirty
  /\ dirty' = TRUE
  /\ UNCHANGED <<spc, worker, outMarker, ITER_START, NOW, SINCE_CHANGE, LAST_CHANGE_TIME,
                 TIMED_OUT, STALLED, supExit, now, pipelineVars>>

\* The worker prints the completion marker.
WorkerEmitsMarker ==
  /\ worker = "running" /\ supExit = -1
  /\ ~outMarker
  /\ outMarker' = TRUE
  /\ UNCHANGED <<spc, worker, dirty, ITER_START, NOW, SINCE_CHANGE, LAST_CHANGE_TIME,
                 TIMED_OUT, STALLED, supExit, now, pipelineVars>>

\* The worker ends by itself.
WorkerExits ==
  /\ worker = "running" /\ supExit = -1
  /\ worker' = "exited"
  /\ UNCHANGED <<spc, outMarker, dirty, ITER_START, NOW, SINCE_CHANGE, LAST_CHANGE_TIME,
                 TIMED_OUT, STALLED, supExit, now, pipelineVars>>

\* One turn of the watchdog loop up to its decision: kill -0, NOW, ELAPSED and
\* SINCE_CHANGE (taken here, before the fingerprint test), the timeout test, the
\* fingerprint test, the stall test.
Poll ==
  /\ spc = "poll"
  /\ IF worker # "running"
     THEN /\ spc' = "wait"
          /\ UNCHANGED <<NOW, SINCE_CHANGE, LAST_CHANGE_TIME, dirty>>
     ELSE /\ NOW' = now
          /\ SINCE_CHANGE' = now - LAST_CHANGE_TIME
          /\ IF now - ITER_START >= ITERATION_TIMEOUT
             THEN /\ spc' = "kill_timeout"
                  /\ UNCHANGED <<LAST_CHANGE_TIME, dirty>>
             ELSE /\ LAST_CHANGE_TIME' = IF dirty THEN now ELSE LAST_CHANGE_TIME
                  /\ dirty' = FALSE
                  /\ spc' = IF now - ITER_START > GRACE /\ SINCE_CHANGE' >= STALL_TIMEOUT
                            THEN "kill_stall"
                            ELSE "sleep"
  /\ UNCHANGED <<worker, outMarker, ITER_START, TIMED_OUT, STALLED, supExit, now,
                 pipelineVars>>

\* A kill that is not waited for: the worker is as it was when the script goes on.
KillNoWait(w) == w

\* kill "$CLAUDE_PID" 2>/dev/null; wait "$CLAUDE_PID" 2>/dev/null || true: the
\* script goes on when the worker has terminated.
KillAndWait(w) == IF w = "running" THEN "killed" ELSE w

\* kill "$CLAUDE_PID"; wait; TIMED_OUT=true or STALLED=true; break.  On a worker
\* that has ended since kill -0, kill succeeds or fails as the process table has
\* it, and a failing kill ends the script (set -e) with status 1.
Kill ==
  /\ spc \in {"kill_timeout", "kill_stall"}
  /\ \E status \in ExitStatus :
       /\ worker = "running" => status = 0
       /\ IF status = 0
          THEN /\ worker' = KillAndWait(worker)
               /\ TIMED_OUT' = (spc = "kill_timeout")
               /\ STALLED' = (spc = "kill_stall")
               /\ spc' = "wait"
               /\ UNCHANGED supExit
          ELSE /\ spc' = "ended"
               /\ supExit' = 1
               /\ UNCHANGED <<worker, TIMED_OUT, STALLED>>
  /\ UNCHANGED <<outMarker, dirty, ITER_START, NOW, SINCE_CHANGE, LAST_CHANGE_TIME, now,
                 pipelineVars>>

\* sleep 5
Sleep ==
  /\ spc = "sleep"
  /\ now < MaxTime
  /\ now' = now + 1
  /\ spc' = "poll"
  /\ UNCHANGED <<worker, outMarker, dirty, ITER_START, NOW, SINCE_CHANGE,
                 LAST_CHANGE_TIME, TIMED_OUT, STALLED, supExit, pipelineVars>>

\* After the loop: TIMED_OUT and STALLED continue to the end of the one iteration
\* (exit 1), the marker in the output exits 0, anything else exits 1.
Classify ==
  /\ spc = "wait"
  /\ spc' = "ended"
  /\ supExit' = IF TIMED_OUT \/ STALLED THEN 1 ELSE IF outMarker THEN 0 ELSE 1
  /\ UNCHANGED <<worker, outMarker, dirty, ITER_START, NOW, SINCE_CHANGE,
                 LAST_CHANGE_TIME, TIMED_OUT, STALLED, now, pipelineVars>>

NextSupervisor ==
  \/ WorkerChanges
  \/ WorkerEmitsMarker
  \/ WorkerExits
  \/ Poll
  \/ Kill
  \/ Sleep
  \/ Classify

\* The first attempt of the first task of a story.
InitAttempt ==
  /\ workerKind = "any"
  /\ arg1 = NoKey
  /\ RALPH_CHAIN_MODE = TRUE
  /\ EXPLICIT_STORY = NoKey
  /\ chainMode = RALPH_CHAIN_MODE
  /\ manifest = WellFormed
  /\ skipValidation = FALSE
  /\ ledger = [k \in Keys |-> "in-progress"]
  /\ epicStatus = [e \in Epics |-> "in-progress"]
  /\ fileStatus = ledger
  /\ passes = [k \in Keys |-> AllFalse]
  /\ InitShell

\* ralph.sh run for an attempt of the first task of a story.
InitSupervisorRun ==
  /\ InitAttempt
  /\ doc = [layout |-> "indent2", tasks |-> <<>>, log |-> <<>>]
  /\ InitLogs

SpecSupervisor == InitSupervisorRun /\ [][NextSupervisor]_vars

(***************************************************************************)
(* scripts/ralph-bmad.sh: the write to the manifest in auto_verify_task    *)
(***************************************************************************)

\* Layouts of the text of a JSON block: on one line, as JSON.stringify(x, null, 2)
\* prints it, or any other.
Layouts == {"compact", "indent2", "other"}

\* Tasks of a manifest; title stands for the fields a task has besides id and
\* passes (title, acceptanceCriteria, steps, checkCommands).
TaskIds == {"T1", "T2"}
TaskRecords == [id : TaskIds, title : {"a", "b"}, passes : BOOLEAN]
TaskLists == UNION {[1..n -> TaskRecords] : n \in 1..MaxListed}

\* A write that sets passes of every task that has the id.
MarkEvery(tasks, taskId) ==
  [i \in 1..Len(tasks) |->
     IF tasks[i].id = taskId THEN [tasks[i] EXCEPT !.passes = TRUE] ELSE tasks[i]]

\* const task = tasks.find(t => t.id === taskId); if (task) task.passes = true
MarkFound(tasks, taskId) ==
  LET found == {i \in 1..Len(tasks) : tasks[i].id = taskId}
  IN  IF found = {}
      THEN tasks
      ELSE LET first == CHOOSE i \in found : \A j \in found : i <= j
           IN  [tasks EXCEPT ![first].passes = TRUE]

\* The node script of auto_verify_task for the task the extractor answered: the
\* block is parsed, the task found by its id is marked, the list is printed
\* back with JSON.stringify(tasks, null, 2) in place of the old text, and the id
\* is logged.  A task is attempted, and so verified, MaxRetries times at most.
WriteBack ==
  /\ Len(doc.log) < MaxRetries
  /\ \E i \in 1..Len(doc.tasks) :
       /\ ~doc.tasks[i].passes
       /\ \A j \in 1..(i - 1) : doc.tasks[j].passes
       /\ doc' = [layout |-> "indent2",
                  tasks |-> MarkFound(doc.tasks, doc.tasks[i].id),
                  log |-> Append(doc.log, doc.tasks[i].id)]
  /\ UNCHANGED <<supVars, now, RUN_START, lastDoneAt, arg1, RALPH_CHAIN_MODE,
                 EXPLICIT_STORY, manifest, chainMode, skipValidation, workerKind, store,
                 passes, pc, STORY_KEY, NEEDS_CS_KEY, taskVars, crVars, gateVars,
                 histVars, exitCode, checkRuns, logVars, noteVars>>

\* A story file with any manifest, in the middle of a task loop.
InitManifestWrite ==
  /\ InitAttempt
  /\ \E l \in Layouts, t \in TaskLists : doc = [layout |-> l, tasks |-> t, log |-> <<>>]
  /\ InitLogs

SpecManifestWrite == InitManifestWrite /\ [][WriteBack]_vars

SpecTimeoutWorker == InitTimeoutWorker /\ [][Next]_vars

SpecAnyLedger == InitAnyLedger /\ [][Next]_vars

SpecExplicit == InitExplicit /\ [][Next]_vars

SpecMalformed == InitMalformed /\ [][Next]_vars

\* A run over a ledger whose first story is open and whose story file carries a
\* Status line of its own, the same as the ledger entry or not.
InitDisagree ==
  /\ workerKind = "any"
  /\ skipValidation \in BOOLEAN
  /\ ledger \in [Keys -> Status]
  /\ InLedgerOrder(ledger)
  /\ ledger[LedgerOrder[1]] \in {"in-progress", "ready-for-dev"}
  /\ \E st \in {"in-progress", "done"} : epicStatus = [e \in Epics |-> st]
  /\ \E st \in Status :
       fileStatus = [k \in Keys |-> IF k = LedgerOrder[1] THEN st
                                    ELSE InitFile(ledger[k])]
  /\ passes \in [Keys -> [Tasks -> BOOLEAN]]
  /\ \A k \in Keys : passes[k] \in InitPasses(ledger[k])
  /\ doc = [layout |-> "indent2", tasks |-> <<>>, log |-> <<>>]
  /\ InitLogs
  /\ InitShell
  /\ ParseArgs(NoKey)
  /\ manifest = WellFormed

SpecDisagree == InitDisagree /\ [][Next]_vars

\* A run over a ledger whose first story is open and has a manifest whose task
\* ids are JSON numbers.
InitNumericIds ==
  /\ workerKind = "any"
  /\ InitState
  /\ ledger[LedgerOrder[1]] \in {"in-progress", "ready-for-dev"}
  /\ ParseArgs(NoKey)
  /\ manifest = [WellFormed EXCEPT ![LedgerOrder[1]] = "numeric-ids"]

SpecNumericIds == InitNumericIds /\ [][Next]_vars

\* A run with a worker that can damage the manifest of the story it works on,
\* over a ledger whose first story is open.
InitDamaging ==
  /\ workerKind = "damaging"
  /\ InitState
  /\ ledger[LedgerOrder[1]] \in {"in-progress", "ready-for-dev"}
  /\ ParseArgs(NoKey)
  /\ manifest = WellFormed

SpecDamaging == InitDamaging /\ [][Next]_vars

(***************************************************************************)
(* Properties                                                              *)
(***************************************************************************)

\* C1: the worker is invoked for a task only when that task is the first task of
\* the manifest with passes = false: whenever an attempt is about to start, the
\* task has passes = false and every task listed before it has passes = true.
TasksInListOrder ==
  pc = "attempt" =>
    /\ TASK_ID \in Tasks
    /\ ~passes[STORY_KEY][TASK_ID]
    /\ \A i \in Tasks : i < TASK_ID => passes[STORY_KEY][i]

\* A retry of a later task is about to start.
TasksInListOrderWitness == pc = "attempt" /\ TASK_ID > 1 /\ retry > 1

\* C2: no step of the pipeline itself (each step other than the worker's run)
\* changes passes of a task from true to false.
PassesMonotonic ==
  [][pc # "attempt" =>
       \A k \in Keys : \A i \in Tasks : passes[k][i] => passes'[k][i]]_vars

\* Auto-verification has written the manifest: both of the first two tasks pass
\* after two attempts of which at least one set nothing in the manifest.
PassesMonotonicWitness ==
  /\ pc = "task_select" /\ TASK_ID = 2 /\ attempts = 2 /\ todoAtStart = NumTasks
  /\ ~ownTaskAlways
  /\ passes[STORY_KEY] = Prefix(2)

\* C3: a story's status (ledger entry or Status line) is set to done only for the
\* story being executed, in a state where the task loop has returned success with
\* every task of that story passing, validation has passed or was skipped, and the
\* latest review iteration signalled CR-PASS.
DoneOnlyAfterGates ==
  [][\A k \in Keys :
       (\/ ledger'[k] = "done" /\ ledger[k] # "done"
        \/ fileStatus'[k] = "done" /\ fileStatus[k] # "done")
       => /\ k = STORY_KEY
          /\ taskLoopResult = "ok"
          /\ \A i \in Tasks : passes[k][i]
          /\ validationResult \in {"passed", "skipped"}
          /\ CR_ITERATION > 0 /\ CR_RESULT = "CR-PASS"]_vars

\* C4: no status becomes done while the latest review signal is CR-FIXED, and a
\* CR-FIXED outcome is followed by another iteration that leaves the statuses
\* alone or, with the budget used up, by the story going to review.
NoFixedToDone ==
  [][/\ \A k \in Keys :
          (\/ ledger'[k] = "done" /\ ledger[k] # "done"
           \/ fileStatus'[k] = "done" /\ fileStatus[k] # "done")
          => CR_RESULT # "CR-FIXED"
     /\ (pc = "cr_loop" /\ CR_ITERATION > 0 /\ CR_RESULT = "CR-FIXED")
          => IF CR_ITERATION < MaxCRIterations
             THEN CR_ITERATION' = CR_ITERATION + 1 /\ UNCHANGED <<ledger, fileStatus>>
             ELSE /\ ledger'[STORY_KEY] = "review"
                  /\ fileStatus'[STORY_KEY] = "review"]_vars

\* A review iteration has signalled CR-FIXED with budget left.
NoFixedToDoneWitness ==
  /\ pc = "cr_loop" /\ CR_RESULT = "CR-FIXED"
  /\ CR_ITERATION > 0 /\ CR_ITERATION < MaxCRIterations

\* C5: the review loop makes at most MaxCRIterations iterations, one at a time and
\* each after the first only when the one before signalled CR-FIXED; a gate run
\* that invoked the reviewer leaves the story done or review; and when the last
\* allowed iteration signals CR-FIXED the story goes to review.
ReviewLoopBounded ==
  [][/\ CR_ITERATION' <= MaxCRIterations
     /\ CR_ITERATION' > CR_ITERATION
          => /\ CR_ITERATION' = CR_ITERATION + 1
             /\ CR_ITERATION = 0 \/ CR_RESULT = "CR-FIXED"
     /\ (pc = "cr_loop" /\ pc' # "cr_loop")
          => ledger'[STORY_KEY] \in {"done", "review"}
     /\ (pc = "cr_loop" /\ CR_ITERATION = MaxCRIterations /\ CR_RESULT = "CR-FIXED")
          => /\ ledger'[STORY_KEY] = "review"
             /\ fileStatus'[STORY_KEY] = "review"]_vars

\* Every iteration of the budget signalled CR-FIXED and the story is in review.
ReviewLoopBoundedWitness ==
  /\ pc = "exit" /\ CR_ITERATION = MaxCRIterations /\ CR_RESULT = "CR-FIXED"
  /\ ledger[STORY_KEY] = "review" /\ fileStatus[STORY_KEY] = "review"

\* C6: a review iteration whose output holds none of the three signals is
\* classified CR-BLOCKED, no further iteration runs, and the story goes to review.
UnrecognizedIsBlocked ==
  [][(pc = "cr_loop" /\ CR_ITERATION > 0 /\ crOutput = {})
       => /\ CR_RESULT = "CR-BLOCKED"
          /\ CR_ITERATION' = CR_ITERATION
          /\ ledger'[STORY_KEY] = "review"
          /\ fileStatus'[STORY_KEY] = "review"]_vars

\* The first review iteration has returned an output without a signal.
UnrecognizedIsBlockedWitness ==
  pc = "cr_loop" /\ CR_ITERATION = 1 /\ crOutput = {} /\ CR_RESULT = "CR-BLOCKED"

\* C7: every change the pipeline makes to a story status, in the ledger or in the
\* story file, is ready-for-dev -> in-progress, in-progress -> done or
\* in-progress -> review (the story generator's step is not the pipeline's).
StatusTransitions ==
  [][pc # "create_story" =>
       \A k \in Keys :
         /\ ledger'[k] # ledger[k]
              => <<ledger[k], ledger'[k]>> \in
                   {<<"ready-for-dev", "in-progress">>, <<"in-progress", "done">>,
                    <<"in-progress", "review">>}
         /\ fileStatus'[k] # fileStatus[k]
              => <<fileStatus[k], fileStatus'[k]>> \in
                   {<<"ready-for-dev", "in-progress">>, <<"in-progress", "done">>,
                    <<"in-progress", "review">>}]_vars

\* A story that the run started has been escalated after attempts on its tasks.
StatusTransitionsWitness ==
  /\ pc = "exit" /\ attempts > 0 /\ taskLoopResult = "failed"
  /\ ledger[STORY_KEY] = "review" /\ fileStatus[STORY_KEY] = "review"

EpicFailureMarksReview ==
  [][(pc = "epic" /\ cmdFailed')
       => /\ epicStatus'[epicNumFromKey(STORY_KEY)] = "review"
          /\ pc' = "chain"]_vars

\* C10 as stated: with a worker that emitted the completion marker at every
\* attempt, validation passed and CR-PASS at iteration 1, a story that started with
\* all its tasks open has had exactly NumTasks worker invocations, no further
\* review iteration follows, and its status goes from in-progress to done.
FirstTryByMarker ==
  [][(/\ pc = "cr_loop" /\ CR_ITERATION = 1 /\ CR_RESULT = "CR-PASS"
      /\ validationResult = "passed" /\ todoAtStart = NumTasks
      /\ markerAlways)
       => /\ attempts = NumTasks
          /\ CR_ITERATION' = 1
          /\ ledger[STORY_KEY] = "in-progress" /\ ledger'[STORY_KEY] = "done"
          /\ fileStatus[STORY_KEY] = "in-progress"
          /\ fileStatus'[STORY_KEY] = "done"]_vars

\* C10 amended: the same with a worker whose every attempt made exactly its own
\* task pass in the manifest, whether or not it emitted the marker.
FirstTryByManifest ==
  [][(/\ pc = "cr_loop" /\ CR_ITERATION = 1 /\ CR_RESULT = "CR-PASS"
      /\ validationResult = "passed" /\ todoAtStart = NumTasks
      /\ ownTaskAlways)
       => /\ attempts = NumTasks
          /\ CR_ITERATION' = 1
          /\ ledger[STORY_KEY] = "in-progress" /\ ledger'[STORY_KEY] = "done"
          /\ fileStatus[STORY_KEY] = "in-progress"
          /\ fileStatus'[STORY_KEY] = "done"]_vars

\* Such a story has been marked done.
FirstTryByManifestWitness ==
  /\ pc = "epic" /\ CR_ITERATION = 1 /\ CR_RESULT = "CR-PASS"
  /\ validationResult = "passed" /\ todoAtStart = NumTasks /\ ownTaskAlways
  /\ attempts = NumTasks
  /\ ledger[STORY_KEY] = "done" /\ fileStatus[STORY_KEY] = "done"

ValidationFailureEscalates ==
  [][(pc = "validate" /\ cmdFailed')
       => /\ validationResult' = "failed"
          /\ ledger'[STORY_KEY] = "review" /\ fileStatus'[STORY_KEY] = "review"
          /\ pc' = "exit"]_vars

\* C14: a run that has ended with code 0 ended on a clean stop (no story is left
\* in-progress, ready-for-dev or backlog, or the single story of a single-story
\* run went through all its phases), and a run that ended after its task loop
\* failed, its validation failed or its review did not pass ended with a code
\* other than 0.
ExitCodeTellsEscalation ==
  pc = "exit" =>
    /\ exitCode = 0
         => \/ \A k \in Keys : ledger[k] \notin {"in-progress", "ready-for-dev", "backlog"}
            \/ ~chainMode /\ epicOutcome # "none"
    /\ (\/ taskLoopResult = "failed"
        \/ validationResult = "failed"
        \/ CR_ITERATION > 0 /\ CR_RESULT # "CR-PASS")
         => exitCode # 0

ExplicitStoryOnly ==
  [][/\ arg1 # NoKey => ~chainMode
     /\ (arg1 # NoKey /\ pc = "discover" /\ pc' = "task_select")
          => STORY_KEY = NoKey /\ STORY_KEY' = arg1
     /\ arg1 # NoKey => pc' # "create_story"
     /\ (arg1 # NoKey /\ pc = "chain") => pc' = "exit"]_vars

\* C18: for a story whose manifest cannot be parsed or has a task that lacks a
\* required field, the worker is never invoked: the pipeline stands at the
\* extraction or has ended the run, and then the story is in review.
MalformedManifestIsFatal ==
  (STORY_KEY # NoKey /\ manifest[STORY_KEY] # "ok")
    => /\ attempts = 0
       /\ pc \in {"task_select", "exit"}
       /\ pc = "exit" => fileStatus[STORY_KEY] = "review" /\ ledger[STORY_KEY] = "review"

\* C17: on every manifest of the run the extractor answers done exactly when every
\* task passes; otherwise it answers a task that does not pass and has only
\* passing tasks before it, with the number of passing tasks and the number of
\* tasks.
ExtractorContract ==
  \A k \in Keys :
    LET p == passes[k]
        u == ExtractTask(p)
    IN  /\ u.done <=> \A i \in Tasks : p[i]
        /\ ~u.done =>
             /\ u.taskId \in Tasks
             /\ ~p[u.taskId]
             /\ \A j \in Tasks : j < u.taskId => p[j]
             /\ u.completedCount = Cardinality({i \in Tasks : p[i]})
             /\ u.totalTasks = Cardinality(Tasks)

\* The extractor has answered the first task again after an attempt that made a
\* later task pass and not the first.
ExtractorContractWitness ==
  /\ pc = "attempt" /\ TASK_ID = 1 /\ retry = 2
  /\ ~passes[STORY_KEY][1] /\ passes[STORY_KEY][2]

\* C19: on the ledger of every state of a run, update_status of any key from any
\* status to any status gives the same ledger applied twice as applied once, and
\* gives the ledger back unchanged when the key is already at the target status.
UpdateIdempotent ==
  \A k \in Keys, from \in Status, to \in Status :
    LET once == UpdateLedger(ledger, k, from, to)
    IN  /\ UpdateLedger(once, k, from, to) = once
        /\ ledger[k] = to => once = ledger

\* C20: a step of the pipeline that updates the status of the current story leaves
\* the ledger entry of every other key as it was (story creation, which writes the
\* entry of the story it creates, set aside).
UpdateOnlyOwnLine ==
  [][pc # "create_story"
       => \A j \in Keys : j # STORY_KEY' => ledger'[j] = ledger[j]]_vars

TimeoutClassification ==
  /\ spc \in {"wait", "ended"} => (TIMED_OUT <=> NOW - ITER_START >= ITERATION_TIMEOUT)
  /\ TIMED_OUT => worker = "killed"

\* C23: an attempt is classified stalled only on a poll with elapsed > GRACE and
\* with at least STALL_TIMEOUT since the last change seen, a change seen at that
\* poll included; and the watchdog goes to sleep only when that does not hold.
StallClassification ==
  /\ STALLED => /\ NOW - ITER_START > GRACE
                /\ NOW - LAST_CHANGE_TIME >= STALL_TIMEOUT
  /\ spc = "sleep" => ~(/\ NOW - ITER_START > GRACE
                        /\ NOW - LAST_CHANGE_TIME >= STALL_TIMEOUT)

\* C24: ralph.sh ends with status 0 exactly when the worker ended by itself and
\* its output holds the completion marker, and never after a timeout or a stall.
PassedIffNaturalWithMarker ==
  spc = "ended" => /\ supExit = 0 <=> (worker = "exited" /\ outMarker)
                   /\ (TIMED_OUT \/ STALLED) => supExit # 0

ManifestDecidesPass ==
  [][/\ (/\ pc = "check"
         /\ LET u == ExtractTask(passes[STORY_KEY])
            IN  u.done \/ u.taskId # TASK_ID)
          => pc' = "task_select" /\ attempts' = attempts /\ passes' = passes
     /\ pc' = "attempt" => ~passes'[STORY_KEY'][TASK_ID']]_vars

\* The first task is taken for passed after its first attempt, which made it pass
\* and did not emit the completion marker.
ManifestDecidesPassWitness ==
  /\ pc = "task_select" /\ TASK_ID = 1 /\ attempts = 1
  /\ ownTaskAlways /\ ~markerAlways /\ passes[STORY_KEY][1]

ManifestWriteFrame ==
  [][\A i \in 1..Len(doc.tasks) :
       (~doc.tasks[i].passes /\ \A j \in 1..(i - 1) : doc.tasks[j].passes) =>
         /\ Len(doc'.tasks) = Len(doc.tasks)
         /\ \A j \in 1..Len(doc.tasks) :
              /\ doc'.tasks[j].id = doc.tasks[j].id
              /\ doc'.tasks[j].title = doc.tasks[j].title
              /\ j # i => doc'.tasks[j].passes = doc.tasks[j].passes]_vars

\* C28 witness: one write was made to a manifest of two tasks that share an id
\* and differ in their other fields; the first is marked, the second still open.
ManifestWriteFrameWitness ==
  /\ Len(doc.log) = 1 /\ Len(doc.tasks) = 2
  /\ doc.tasks[1].passes /\ ~doc.tasks[2].passes
  /\ doc.tasks[1].title # doc.tasks[2].title
  /\ doc.tasks[1].id = doc.tasks[2].id
\* C29: a task that used up its retries without passing ends the task loop and
\* moves its story to review; from then on no worker is invoked and no task is
\* selected, so the failure counter of the story stays within MAX_TOTAL_FAILURES.
TaskFailureStopsStory ==
  [][/\ (TASK_FAILURES' > TASK_FAILURES) =>
          /\ pc = "check" /\ ~RetriesLeft(retry)
          /\ taskLoopResult' = "failed"
          /\ ledger'[STORY_KEY] = "review" /\ fileStatus'[STORY_KEY] = "review"
          /\ pc' = "exit"
     /\ (TASK_FAILURES > 0) =>
          /\ attempts' = attempts
          /\ TASK_ID' = TASK_ID /\ retry' = retry
          /\ pc' = "exit"
     /\ TASK_FAILURES' <= MAX_TOTAL_FAILURES]_vars

\* C29 witness: in chain mode the second task of a story failed after the first
\* passed, and another story was still waiting.
TaskFailureStopsStoryWitness ==
  /\ chainMode /\ pc = "exit" /\ TASK_FAILURES = 1 /\ taskLoopResult = "failed"
  /\ LAST_FAILED_TASK_ID = TASK_ID
  /\ passes[STORY_KEY][1] /\ ~passes[STORY_KEY][TASK_ID]
  /\ ledger[STORY_KEY] = "review"
  /\ \E k \in Keys : ledger[k] \in {"ready-for-dev", "backlog"}
\* C30 (as stated): in chain mode a story escalated for a manifest that cannot be
\* parsed does not end the run while another story waits for work.
StructuralErrorContinues ==
  ~(/\ chainMode /\ pc = "exit"
    /\ STORY_KEY # NoKey /\ manifest[STORY_KEY] = "unparseable"
    /\ taskLoopResult = "failed"
    /\ ~nextStory(ledger).done)

\* C30 (amended): a story whose manifest cannot be parsed is escalated to review
\* at the top of its task loop, with no worker invocation, and the run ends there,
\* in chain mode as in single-unit mode.
StructuralErrorEndsRun ==
  [][(pc = "task_select" /\ manifest[STORY_KEY] = "unparseable") =>
       /\ ledger'[STORY_KEY] = "review" /\ fileStatus'[STORY_KEY] = "review"
       /\ attempts' = attempts /\ STORY_KEY' = STORY_KEY
       /\ pc' = "exit"]_vars

\* C30 witness: a chain-mode run ended on the escalation of a story whose manifest
\* cannot be parsed, before any attempt and with another story waiting.
StructuralErrorEndsRunWitness ==
  /\ chainMode /\ pc = "exit"
  /\ STORY_KEY # NoKey /\ manifest[STORY_KEY] = "unparseable"
  /\ taskLoopResult = "failed" /\ attempts = 0
  /\ ledger[STORY_KEY] = "review"
  /\ ~nextStory(ledger).done
\* C31: the task loop starts only for a story whose file exists and that
\* discovery returned as executable (in-progress or ready-for-dev in the ledger);
\* a story handed to the generator is not attempted by that step, and the run
\* stops when the generator is skipped or leaves no story file.
NoTaskLoopWithoutArtifact ==
  [][/\ (pc = "discover" /\ pc' = "task_select") =>
          /\ fileStatus[STORY_KEY'] # NoFile
          /\ ledger[STORY_KEY'] \in {"in-progress", "ready-for-dev"}
     /\ (pc' \in {"task_select", "attempt", "check"}) => fileStatus'[STORY_KEY'] # NoFile
     /\ (pc = "create_story") =>
          /\ attempts' = attempts /\ STORY_KEY' = STORY_KEY
          /\ pc' \in {"create_story", "discover", "exit"}
          /\ (pc' = "discover" => fileStatus'[NEEDS_CS_KEY] # NoFile)]_vars

\* C31 witness: the story that was in backlog without a file when the run began
\* is being attempted, its file written and its ledger entry advanced.
NoTaskLoopWithoutArtifactWitness ==
  /\ pc = "attempt"
  /\ STORY_KEY = LedgerOrder[Len(LedgerOrder)]
  /\ fileStatus[STORY_KEY] = "in-progress"
  /\ ledger[STORY_KEY] = "in-progress"
(***************************************************************************)
(* scripts/ralph-bmad.sh: step 3 of the retry loop, by itself              *)
(***************************************************************************)

\* Step 3 after a failed attempt: the failure context of the next attempt is what
\* extract_failure_learnings printed; "sleep 2", and the for loop counts on.
LearnFromAttempt ==
  /\ retry <= MaxRetries
  /\ \E out \in SummaryOutcomes :
       /\ logDir' = extract_failure_learnings(logDir, out).files
       /\ TASK_FAILURE_CONTEXT' = extract_failure_learnings(logDir, out).context
       /\ summarizer' = extract_failure_learnings(logDir, out).ran
  /\ retry' = retry + 1
  /\ UNCHANGED <<config, noteVars, clockVars, checkRuns, store, passes, pc, storyVars, TASK_ID,
                 TASK_FAILURES, LAST_FAILED_TASK_ID, crVars, gateVars, histVars, exitCode>>

\* The first attempt of a task has failed; the log directory holds any of its
\* files, the iteration log among them when the ralph.sh in use keeps it in
\* $RALPH_LOG_DIR.
InitLearnings ==
  /\ InitAttempt
  /\ doc = [layout |-> "indent2", tasks |-> <<>>, log |-> <<>>]
  /\ logDir \in SUBSET {PromptCopy, IterationLog, Learnings}
  /\ TASK_FAILURE_CONTEXT \in Contexts
  /\ summarizer = NotRun
  /\ TIMELINE_EVENTS = {}
  /\ PROGRESS_REPORT = {}

NextLearnings ==
  \/ Tick
  \/ LearnFromAttempt

SpecLearnings == InitLearnings /\ [][NextLearnings]_vars

\* C32: an attempt that has ended has left its transcript in the log directory of
\* the story, and the failure context a retry carries was made from a transcript
\* (what the summarizer printed about it, or its last lines).
TranscriptFeedsNextAttempt ==
  /\ (pc = "check") => IterationLog \in logDir
  /\ (pc = "attempt" /\ retry > 1) =>
       TASK_FAILURE_CONTEXT \in {"summarizer-output", "raw-tail"}
EscalationNoted ==
  [][(/\ STORY_KEY # NoKey
      /\ ledger[STORY_KEY] # "review"
      /\ ledger'[STORY_KEY] = "review") =>
       /\ TIMELINE_EVENTS' # TIMELINE_EVENTS
       /\ TIMELINE_EVENTS' \subseteq PROGRESS_REPORT']_vars
NoStoryTwice ==
  [][/\ (pc = "chain" /\ pc' = "discover") => ledger[STORY_KEY] = "done"
     /\ (pc = "discover" /\ pc' = "task_select") => STORY_KEY' # STORY_KEY]_vars
\* C37: when the review gate has run and returned success, the story it reviewed
\* is done in the ledger and in the Status line of its file.
CompletedMeansDone ==
  [][(pc = "cr_loop" /\ pc' = "epic") =>
       /\ ledger'[STORY_KEY] = "done"
       /\ fileStatus'[STORY_KEY] = "done"]_vars
\* C38: while the first task of a story that began with no task passing is the
\* current task, the worker has been invoked MaxRetries times at most.
RetriesPerTaskBounded ==
  (TASK_ID = 1 /\ todoAtStart = NumTasks) => attempts <= MaxRetries

\* C39: an attempt after which the manifest cannot be extracted, and whose
\* auto-verification did not succeed, does not end with the task taken as passed
\* (the step from the check back to the selection of the next task).
UnextractableNeverPassed ==
  [][(/\ pc = "check"
      /\ ExtractorStatus(manifest[STORY_KEY]) # 0
      /\ ~auto_verify_task(checkRuns).ok) => pc' # "task_select"]_vars

\* C40: when the output of the latest review iteration holds the blocked signal,
\* the story is not moved to done, in the ledger or in its file, whatever other
\* signals the output holds.
BlockedNeverDone ==
  [][(pc = "cr_loop" /\ "CR-BLOCKED" \in crOutput) =>
       /\ (ledger[STORY_KEY] # "done" => ledger'[STORY_KEY] # "done")
       /\ (fileStatus[STORY_KEY] # "done" => fileStatus'[STORY_KEY] # "done")]_vars
====
